---------------------------- MODULE Spec2Model ----------------------------
(***************************************************************************)
(* Task Manager API: the document store (users, tasks, counters), the      *)
(* JWT authentication layer and the request handlers of src/api, as a      *)
(* state machine.                                                          *)
(*                                                                         *)
(* Every handler is a coroutine; the only points where another request can *)
(* run are the awaited store operations.  A handler is therefore modelled  *)
(* as a sequence of atomic steps, one per store operation: a step applies  *)
(* the store operation and runs the handler's code up to the next one      *)
(* (clock reads included).  get_db() never suspends.                       *)
(*                                                                         *)
(* External collaborators are modelled by their contract: the store's      *)
(* find_one / insert_one / find_one_and_update / delete_one are atomic per *)
(* document and honour the unique indexes init_db creates, and find_one    *)
(* returns a dict; jwt.encode is a deterministic function of the payload   *)
(* and the key, jwt.decode checks the signature, the exp claim and that    *)
(* the sub claim is a string; timestamps are whole seconds.                *)
(*                                                                         *)
(* The operations are the requests that the router of src/api/auth.py      *)
(* serves (an arrival, then the handler's steps), the requests for the     *)
(* routes of src/api/tasks.py, and direct calls of the methods of          *)
(* TaskService with their arguments.  src/api/tasks.py imports a name,     *)
(* TaskAssignment, that src/models/task.py does not define: the module     *)
(* raises ImportError (and src/main.py, which imports it, does too), so no *)
(* handler of a task route exists and a request for one gets no response.  *)
(* The handlers are modelled as written all the same, for what they would  *)
(* do once imported: get_current_user refuses every token that             *)
(* create_access_token makes, so no request with such a token would run a  *)
(* task route beyond its arrival.  No find asks for a sort: the order of a *)
(* cursor is the store's choice.                                           *)
(***************************************************************************)
EXTENDS Integers, Sequences, FiniteSets, TLC

VARIABLES
    users,      \* db.users: the set of stored user documents
    tasks,      \* db.tasks: the set of stored task documents
    counters,   \* db.counters: entity name -> seq (0: no document yet)
    now,        \* datetime.utcnow(), in seconds
    req,        \* slot -> the request being served there (the handler's locals)
    resp,       \* the response that the last step sent, if it sent one
    issued,     \* access tokens handed to clients so far
    foreign,    \* tokens in clients' hands that this service did not issue
    id_log,     \* history: entity name -> the values _get_next_id returned, in order
    seen,       \* history: slot -> the statistics of the store at each instant since
                \* the get_task_statistics call served there began
    patched,    \* history: id of a stored task -> per field, the value that
                \* the last find_one_and_update applied to that task set it to
    nreq        \* requests accepted so far

vars == <<users, tasks, counters, now, req, resp, issued, foreign, id_log, seen, patched,
          nreq>>

-----------------------------------------------------------------------------
\* Bounds of the model.

\* Clock advances allowed in a run.
MaxTicks == 2
\* Requests accepted in a run.
MaxReq == 3

\* Concurrent request slots.
Procs == {1, 2}

\* Optional[int] / Optional[datetime] holding None.
None == -1
\* Optional[str] holding None.
NoText == "None"
\* A TaskUpdate field that the request body did not set (pydantic's
\* model_fields_set), for text fields and for due_date.
Unset == "unset"
UnsetTime == -2

-----------------------------------------------------------------------------
\* Configuration (src/src/services/auth_service.py).

ACCESS_TOKEN_EXPIRE_MINUTES == 60
SECRET_KEY == "your-secret-key-here"
ALGORITHM == "HS256"

TokenLifetime == ACCESS_TOKEN_EXPIRE_MINUTES * 60

\* The number of clock advances that lead to time t (advances are by one second
\* or by one token lifetime).
TickCount(t) == (t \div TokenLifetime) + (t % TokenLifetime)

-----------------------------------------------------------------------------
\* Request inputs.

Emails == {"e1", "e2"}
Usernames == {"n1", "n2"}
Passwords == {"pw1", "pw2"}
\* Passwords chosen at registration.
RegPasswords == {"pw1"}
Entities == {"users", "tasks"}

-----------------------------------------------------------------------------
\* Password hashing (passlib CryptContext): verify succeeds exactly on the
\* digest of the same password.

hash_password(password) == [scheme |-> "bcrypt", of |-> password]

\* A mutant: every password verifies.
verify_password_Any(plain_password, hashed_password) == TRUE

verify_password(plain_password, hashed_password) ==
    hashed_password = hash_password(plain_password)

-----------------------------------------------------------------------------
\* User documents and their outward-facing view.

\* The UserInDB that create_user builds (full_name is not given in the requests
\* modelled).
UserInDB(id, email, username, password, created_at) ==
    [id |-> id, email |-> email, username |-> username, full_name |-> NoText,
     hashed_password |-> hash_password(password),
     is_active |-> TRUE, is_admin |-> FALSE,
     created_at |-> created_at, last_login |-> None]

\* A mutant: the stored document is returned as it is.
PublicUser_Unstripped(u) == u

\* User(**user.model_dump(exclude={"hashed_password"})), and User(**user_data):
\* the User model has no hashed_password field.
PublicUser(u) == [f \in DOMAIN u \ {"hashed_password"} |-> u[f]]

\* db.users.find_one({"email": email}) -> UserInDB or nothing (a set of 0 or 1).
get_user_by_email(email) ==
    IF \E u \in users : u.email = email
    THEN {CHOOSE u \in users : u.email = email}
    ELSE {}

\* A mutant: the username lookup finds nothing.
get_user_by_username_Blind(username) == {}

\* db.users.find_one({"username": username}) -> User or nothing.
get_user_by_username(username) ==
    IF \E u \in users : u.username = username
    THEN {PublicUser(CHOOSE u \in users : u.username = username)}
    ELSE {}

\* db.users.find_one({"id": user_id}) -> User or nothing.
get_user_by_id(user_id) ==
    IF \E u \in users : u.id = user_id
    THEN {PublicUser(CHOOSE u \in users : u.id = user_id)}
    ELSE {}

\* A mutant: the users collection has no unique index.
UsersDuplicateKey_NoIndex(coll, doc) == FALSE

\* insert_one raises DuplicateKeyError when a unique index of db.users (email,
\* username, id) already holds the document's key.
UsersDuplicateKey(coll, doc) ==
    \E u \in coll : u.email = doc.email \/ u.username = doc.username \/ u.id = doc.id

-----------------------------------------------------------------------------
\* Counter allocator.

\* A mutant: the counter document is read and returned without the $inc.
IncSeq_NoInc(seq) == IF seq = 0 THEN 1 ELSE seq

\* {"$inc": {"seq": 1}} with upsert=True: an absent document counts as 0.
IncSeq(seq) == seq + 1

\* A mutant: the next id is computed from the documents stored.
get_next_id_Recount(entity) ==
    [counters EXCEPT ![entity] =
        Cardinality(IF entity = "tasks" THEN tasks ELSE users) + 1]

\* find_one_and_update(..., return_document=True): the counters after the
\* update; the value returned is the updated document's seq.
get_next_id(entity) == [counters EXCEPT ![entity] = IncSeq(counters[entity])]

-----------------------------------------------------------------------------
\* Tokens.

\* A claim of a token's payload with its JSON type: the integer n, the string
\* str(n), or no such claim.
IntClaim(n) == [type |-> "int", val |-> n]
StrClaim(n) == [type |-> "str", val |-> n]
NoClaim == [type |-> "null", val |-> None]

\* The Authorization header carries no bearer token.
NoToken == [sub |-> NoClaim, exp |-> 0, iat |-> 0, sig |-> <<"", "">>]

Signature(key, alg) == <<alg, key>>

\* jwt.encode(payload.model_dump(), SECRET_KEY, algorithm=ALGORITHM)
jwt_encode(sub, exp, iat) ==
    [sub |-> sub, exp |-> exp, iat |-> iat, sig |-> Signature(SECRET_KEY, ALGORITHM)]

\* expire = now + timedelta(minutes=ACCESS_TOKEN_EXPIRE_MINUTES)
TokenExpiry(t) == t + TokenLifetime

\* create_access_token(user) at clock t: the access_token of the Token returned.
\* TokenPayload(sub=user.id, ...): the sub claim is the integer id.
create_access_token(user, t) == jwt_encode(IntClaim(user.id), TokenExpiry(t), t)

Token(access_token) ==
    [access_token |-> access_token, token_type |-> "bearer",
     expires_in |-> ACCESS_TOKEN_EXPIRE_MINUTES * 60]

\* jwt.decode raises JWTError: no token, a signature that does not verify, an
\* exp claim in the past, or a sub claim that is not a string (python-jose
\* raises JWTClaimsError("Subject must be a string."), a JWTError, for it).
JWTError(token, t) ==
    \/ token.sig # Signature(SECRET_KEY, ALGORITHM)
    \/ token.exp < t
    \/ token.sub.type = "int"

\* get_current_user: the authenticated user, or nothing (401).  A sub claim
\* that passed jwt.decode is a string: find_one({"id": user_id}) compares it
\* with the integer ids of the stored users and finds none.
get_current_user(token, t) ==
    IF JWTError(token, t) \/ token.sub = NoClaim
    THEN {}
    ELSE IF token.sub.type = "str"
         THEN {}
         ELSE get_user_by_id(token.sub.val)

\* Well-signed tokens that this deployment did not issue (same key, another
\* issuer or an earlier database): one without subject, one of an unknown
\* user, and one whose subject is the string "1".
StrayTokens ==
    {jwt_encode(NoClaim, TokenLifetime, 0), jwt_encode(IntClaim(9), TokenLifetime, 0),
     jwt_encode(StrClaim(1), TokenLifetime, 0)}

ForgedToken ==
    [sub |-> IntClaim(1), exp |-> 3 * TokenLifetime, iat |-> 0, sig |-> <<"none", "">>]

\* What a client can put in the Authorization header.
Presentable == issued \cup foreign \cup {NoToken}

-----------------------------------------------------------------------------
\* Cursors over db.tasks and the statistics pass
\* (src/src/services/task_service.py, get_task_statistics).

\* to_list(length=1000)
StatsLength == 1000

\* The number of documents in the reply to find (the server's default first
\* batch); a later batch holds all that is left.
FirstBatch == 101

\* The documents of db.tasks.find({"user_id": user_id}), as they are stored.
Matching(user_id) == {d \in tasks : d.user_id = user_id}

\* The subsets of docs that have k documents.
RECURSIVE Choose(_, _)
Choose(docs, k) ==
    IF k = 0 THEN {{}}
    ELSE IF k = 1 THEN {{d} : d \in docs}
    ELSE IF Cardinality(docs) < k THEN {}
    ELSE LET d == CHOOSE d \in docs : TRUE
         IN {s \cup {d} : s \in Choose(docs \ {d}, k - 1)} \cup Choose(docs \ {d}, k)

\* What the first n documents of a cursor over docs can be.  No find of
\* TaskService asks for a sort, so the store decides the order (the order of
\* insertion as a rule, which need not be the order of the ids): any n of the
\* documents, or all of them when there are no more than n.
FirstDocs(docs, n) ==
    IF Cardinality(docs) <= n THEN {docs}
    ELSE IF 2 * n <= Cardinality(docs) THEN Choose(docs, n)
    ELSE {docs \ out : out \in Choose(docs, Cardinality(docs) - n)}

\* if due_date and due_date < now and status != TaskStatus.COMPLETED
Overdue(task, t) ==
    task.due_date # None /\ task.due_date < t /\ task.status # "completed"

\* The loop over the fetched documents and the dictionary returned; by_status
\* and by_priority have a key for each value that occurs.
get_task_statistics(docs, t) ==
    [total |-> Cardinality(docs),
     by_status |-> [s \in {d.status : d \in docs}
                      |-> Cardinality({d \in docs : d.status = s})],
     by_priority |-> [q \in {d.priority : d \in docs}
                        |-> Cardinality({d \in docs : d.priority = q})],
     overdue_count |-> Cardinality({d \in docs : Overdue(d, t)})]

-----------------------------------------------------------------------------
\* Requests.

\* TaskUpdate() with no field set.
NoPatch ==
    [title |-> Unset, description |-> Unset, priority |-> Unset, status |-> Unset,
     due_date |-> UnsetTime]

\* A request or a call: its inputs, the handler's locals (user: the current or
\* authenticated user, user_id: the user_id argument of the TaskService method,
\* task: the task read by the route, t: the clock value read, id: the id
\* allocated) and, once answered, the status code and body.
\* dup is a history flag: the email or username of a registration was stored
\* when it arrived.  In a direct call of TaskService.update_task, task is a
\* history value: the task as it was stored when the call was made.
Idle ==
    [op |-> "none", pc |-> "idle",
     email |-> "", username |-> "", password |-> "", dup |-> FALSE,
     token |-> NoToken, task_id |-> None, data |-> NoPatch, target |-> None,
     t |-> 0, id |-> None, user |-> {}, user_id |-> None, task |-> {},
     status |-> 0, body |-> {}]

\* The methods of TaskService that are also called directly, by a caller other
\* than the routes (the routes reach them with no token that the service
\* issues: see get_current_user).  The outcome of a direct call is recorded
\* like a response: 200 with the value returned (nothing for None), 500 when
\* the method raises.
ServiceCalls ==
    {"create_task", "update_task", "delete_task", "get_user_tasks", "statistics"}

\* A request is accepted into the lowest free slot (slots are interchangeable).
Accept(p) ==
    /\ req[p].pc = "idle"
    /\ \A q \in Procs : q < p => req[q].pc # "idle"
    /\ nreq < MaxReq
    /\ nreq' = nreq + 1

\* The handler returns or raises: r with the status code and the body sent.
Respond(r, status, body) == [r EXCEPT !.pc = "done", !.status = status, !.body = body]

\* The patch `data` laid over the patches applied before it.
Overlay(before, data) ==
    [f \in DOMAIN data |-> IF data[f] = NoPatch[f] THEN before[f] ELSE data[f]]

\* The handler in slot p runs up to its next await, or to its end: then the
\* response is sent and the slot is free again.  (History: the store as this
\* step finds it is one more instant of every statistics call being served.)
Step(p, r) ==
    /\ req' = [req EXCEPT ![p] = IF r.pc = "done" THEN Idle ELSE r]
    /\ resp' = IF r.pc = "done" THEN {r} ELSE {}
    /\ seen' = [q \in Procs |->
                LET x == IF q = p THEN r ELSE req[q]
                IN IF x.op = "statistics"
                   THEN (IF req[q].op = "statistics" THEN seen[q] ELSE {})
                        \cup {get_task_statistics(Matching(x.data.user_id), now)}
                   ELSE {}]
    /\ patched' =
         LET id == req[p].task_id
             before == IF id \in DOMAIN patched THEN patched[id] ELSE NoPatch
             after == IF req[p].pc = "write" THEN Overlay(before, req[p].data)
                      ELSE before
             kept == IF req[p].pc = "delete" \/ after = NoPatch
                     THEN DOMAIN patched \ {id}
                     ELSE IF \E t \in tasks : t.id = id
                          THEN DOMAIN patched \cup {id}
                          ELSE DOMAIN patched
         IN [k \in kept |-> IF k = id THEN after ELSE patched[k]]

\* ---- POST /api/auth/register (src/src/api/auth.py, register)

\* The request arrives; "Check for existing user" by email.
Register(p) ==
    \E e \in Emails, n \in Usernames, pw \in RegPasswords :
        /\ Accept(p)
        /\ LET r == [Idle EXCEPT !.op = "register", !.email = e, !.username = n,
                                 !.password = pw,
                                 !.dup = \E u \in users : u.email = e \/ u.username = n]
           IN Step(p, IF get_user_by_email(e) # {}
                      THEN Respond(r, 400, {})
                      ELSE [r EXCEPT !.pc = "reg_username"])
        /\ UNCHANGED <<users, tasks, counters, now, issued, id_log, foreign>>

\* Keys of a registration body that UserCreate does not declare.
FlagBodies == {[is_active |-> FALSE, is_admin |-> TRUE]}

\* POST /api/auth/register with a body that also sets the flags (data: the
\* flags it names); UserCreate keeps email, username and password.
RegisterFlags(p) ==
    \E e \in Emails, n \in Usernames, pw \in RegPasswords, flags \in FlagBodies :
        /\ Accept(p)
        /\ LET r == [Idle EXCEPT !.op = "register", !.email = e, !.username = n,
                                 !.password = pw, !.data = flags,
                                 !.dup = \E u \in users : u.email = e \/ u.username = n]
           IN Step(p, IF get_user_by_email(e) # {}
                      THEN Respond(r, 400, {})
                      ELSE [r EXCEPT !.pc = "reg_username"])
        /\ UNCHANGED <<users, tasks, counters, now, issued, id_log, foreign>>

\* The username check; create_user then reads the clock.
RegisterUsername(p) ==
    /\ req[p].pc = "reg_username"
    /\ Step(p, IF get_user_by_username(req[p].username) # {}
                THEN Respond(req[p], 400, {})
                ELSE [req[p] EXCEPT !.pc = "reg_next_id", !.t = now])
    /\ UNCHANGED <<users, tasks, counters, now, issued, id_log, nreq, foreign>>

\* create_user: id=await self._get_next_id(db)
RegisterNextId(p) ==
    /\ req[p].pc = "reg_next_id"
    /\ counters' = get_next_id("users")
    /\ id_log' = [id_log EXCEPT !["users"] = Append(@, counters'["users"])]
    /\ Step(p, [req[p] EXCEPT !.pc = "reg_insert", !.id = counters'["users"]])
    /\ UNCHANGED <<users, tasks, now, issued, nreq, foreign>>

\* A mutant: the flags a registration body names are stored.
RegisterInsert_BodyFlags(p) ==
    /\ req[p].pc = "reg_insert"
    /\ LET r == req[p]
           made == UserInDB(r.id, r.email, r.username, r.password, r.t)
           user == IF r.data \in FlagBodies
                   THEN [made EXCEPT !.is_active = r.data.is_active,
                                     !.is_admin = r.data.is_admin]
                   ELSE made
       IN IF UsersDuplicateKey(users, user)
          THEN /\ Step(p, Respond(r, 500, {}))
               /\ users' = users
          ELSE /\ users' = users \cup {user}
               /\ Step(p, Respond(r, 201, {PublicUser(user)}))
    /\ UNCHANGED <<tasks, counters, now, issued, id_log, nreq, foreign>>

\* create_user: await db.users.insert_one(user.model_dump()); a
\* DuplicateKeyError is caught nowhere and becomes a 500.
RegisterInsert(p) ==
    /\ req[p].pc = "reg_insert"
    /\ LET r == req[p]
           user == UserInDB(r.id, r.email, r.username, r.password, r.t)
       IN IF UsersDuplicateKey(users, user)
          THEN /\ Step(p, Respond(r, 500, {}))
               /\ users' = users
          ELSE /\ users' = users \cup {user}
               /\ Step(p, Respond(r, 201, {PublicUser(user)}))
    /\ UNCHANGED <<tasks, counters, now, issued, id_log, nreq, foreign>>

\* ---- POST /api/auth/login and POST /api/auth/token

\* authenticate_user up to its store write: the lookup by email, the password
\* check, and the clock read for last_login.
Authenticate(p, op) ==
    \E e \in Emails, pw \in Passwords :
        /\ Accept(p)
        /\ LET r == [Idle EXCEPT !.op = op, !.email = e, !.password = pw]
               found == get_user_by_email(e)
           IN Step(p,
                IF found = {} THEN Respond(r, 401, {})
                ELSE IF \E u \in found : ~verify_password(pw, u.hashed_password)
                     THEN Respond(r, 401, {})
                     ELSE [r EXCEPT !.pc = "login_touch", !.user = found, !.t = now])
        /\ UNCHANGED <<users, tasks, counters, now, issued, id_log, foreign>>

\* POST /api/auth/login (JSON body).
Login(p) == Authenticate(p, "login")

\* POST /api/auth/token (OAuth2 password form; the username field carries the
\* email).
LoginForAccessToken(p) == Authenticate(p, "token")

\* authenticate_user's update_one of last_login, its return value, and the
\* rest of the route: the is_active check (login only) and the token.
LoginTouch(p) ==
    /\ req[p].pc = "login_touch"
    /\ LET r == req[p]
           found == CHOOSE u \in r.user : TRUE
           user == PublicUser(found)
           token == create_access_token(user, now)
       IN /\ users' = {IF u.id = found.id THEN [u EXCEPT !.last_login = r.t] ELSE u
                         : u \in users}
          /\ IF r.op = "login" /\ ~user.is_active
             THEN /\ Step(p, Respond([r EXCEPT !.user = {user}], 403, {}))
                  /\ issued' = issued
             ELSE /\ Step(p, Respond([r EXCEPT !.user = {user}], 200, {Token(token)}))
                  /\ issued' = issued \cup {token}
    /\ UNCHANGED <<tasks, counters, now, id_log, nreq, foreign>>

\* ---- GET /api/auth/me
Me(p) ==
    \E token \in Presentable :
        /\ Accept(p)
        /\ LET r == [Idle EXCEPT !.op = "me", !.token = token]
               current_user == get_current_user(token, now)
           IN Step(p,
                IF current_user = {} THEN Respond(r, 401, {})
                ELSE Respond([r EXCEPT !.user = current_user], 200, current_user))
        /\ UNCHANGED <<users, tasks, counters, now, issued, id_log, foreign>>

\* ---- POST /api/auth/refresh
Refresh(p) ==
    \E token \in Presentable :
        /\ Accept(p)
        /\ LET r == [Idle EXCEPT !.op = "refresh", !.token = token]
               current_user == get_current_user(token, now)
           IN IF current_user = {}
              THEN /\ Step(p, Respond(r, 401, {}))
                   /\ issued' = issued
              ELSE LET new == create_access_token(CHOOSE u \in current_user : TRUE, now)
                   IN /\ Step(p, Respond([r EXCEPT !.user = current_user], 200,
                                         {Token(new)}))
                      /\ issued' = issued \cup {new}
        /\ UNCHANGED <<users, tasks, counters, now, id_log, foreign>>

-----------------------------------------------------------------------------
\* Tasks (src/src/models/task.py, src/src/services/task_service.py).

Priorities == {"low", "medium", "high", "urgent"}
Statuses == {"pending", "in_progress", "completed", "cancelled"}

\* Titles of no character and of 201 characters (every other title of the
\* model has one or two characters).
EmptyTitle == ""
LongTitle == "a title of 201 characters"

\* title: str = Field(..., min_length=1, max_length=200)
TitleInRange(title) == title \notin {EmptyTitle, LongTitle}

\* Task(**result): the document validates as a Task.  title, priority and
\* status take no null; description and due_date are Optional.
ValidTask(doc) ==
    /\ doc.title # NoText /\ TitleInRange(doc.title)
    /\ doc.priority \in Priorities
    /\ doc.status \in Statuses

\* The JSON body validates as a TaskUpdate: every field is Optional, so an
\* explicit null passes; a title that is given has 1 to 200 characters, a
\* priority or status that is given is a member of its enum.
ValidTaskUpdate(data) ==
    /\ data.title \in {Unset, NoText} \/ TitleInRange(data.title)
    /\ data.priority \in {Unset, NoText} \cup Priorities
    /\ data.status \in {Unset, NoText} \cup Statuses

\* Task(id=..., **task_data.model_dump(), user_id=..., status=PENDING,
\*      created_at=now, updated_at=now)
Task(id, data, user_id, t) ==
    [id |-> id, title |-> data.title, description |-> data.description,
     priority |-> data.priority, due_date |-> data.due_date,
     status |-> "pending", user_id |-> user_id,
     created_at |-> t, updated_at |-> t]

\* db.tasks.find_one({"id": task_id}): the task or nothing.
get_task(task_id) ==
    IF \E t \in tasks : t.id = task_id
    THEN {CHOOSE t \in tasks : t.id = task_id}
    ELSE {}

\* A mutant: the patch is dumped without exclude_unset, so that the optional
\* fields the body left out are written as null.
SetFields_Nulled(task, data, t) ==
    [task EXCEPT
        !.title = IF data.title = Unset THEN @ ELSE data.title,
        !.description = IF data.description = Unset THEN NoText ELSE data.description,
        !.priority = IF data.priority = Unset THEN @ ELSE data.priority,
        !.status = IF data.status = Unset THEN @ ELSE data.status,
        !.due_date = IF data.due_date = UnsetTime THEN None ELSE data.due_date,
        !.updated_at = t]

\* update_data = task_data.model_dump(exclude_unset=True), updated_at added,
\* applied by {"$set": update_data}.
SetFields(task, data, t) ==
    [task EXCEPT
        !.title = IF data.title = Unset THEN @ ELSE data.title,
        !.description = IF data.description = Unset THEN @ ELSE data.description,
        !.priority = IF data.priority = Unset THEN @ ELSE data.priority,
        !.status = IF data.status = Unset THEN @ ELSE data.status,
        !.due_date = IF data.due_date = UnsetTime THEN @ ELSE data.due_date,
        !.updated_at = t]

\* get_task, update_task, delete_task, assign_task:
\*   if task.user_id != current_user.id and not current_user.is_admin: 403
\* task is what TaskService.get_task returned: the dict that find_one gave, not
\* a Task.  A dict has no attribute user_id, so the test raises AttributeError
\* before anything is compared, whoever current_user is.
AccessDenied(task, current_user) == "AttributeError"

\* complete_task:  if task.user_id != current_user.id: 403, on the same dict.
CompleteAccessDenied(task, current_user) == "AttributeError"

\* Request inputs.
TaskIds == {1, 2}
NewTasks ==
    {[title |-> "T", description |-> NoText, priority |-> "high", due_date |-> None]}
Patches == {[NoPatch EXCEPT !.status = "in_progress"]}
Targets == {2}

\* ---- the current_user dependency of a task route, and the route's first await

\* current_user: User = Depends(get_current_user)
Authenticated(token) == get_current_user(token, now)

\* The request r arrives in slot p: 401, or the handler starts at pc (user_id:
\* the current_user.id that the routes pass to TaskService).
Arrive(p, r, pc) ==
    /\ Accept(p)
    /\ LET current_user == Authenticated(r.token)
       IN Step(p,
            IF current_user = {} THEN Respond(r, 401, {})
            ELSE [r EXCEPT !.user = current_user, !.pc = pc,
                           !.user_id = (CHOOSE u \in current_user : TRUE).id])

\* A method of TaskService is called directly, as the call r: it runs up to
\* its first store operation.
Call(p, r) ==
    /\ Accept(p)
    /\ Step(p, r)

\* from src.models.task import ... (src/src/api/tasks.py, line 9), and the
\* names that src/src/models/task.py defines.
tasks_imports ==
    {"Task", "TaskCreate", "TaskUpdate", "TaskAssignment", "Priority", "TaskStatus"}
models_task == {"Priority", "TaskStatus", "TaskBase", "TaskCreate", "TaskUpdate", "Task"}

\* Importing src.api.tasks raises ImportError when a name it imports is not
\* defined (TaskAssignment is not): the module's router and handlers are then
\* never defined.  src/src/main.py imports the module and raises with it.
ImportError == tasks_imports \ models_task # {}

\* A request for a route of src/src/api/tasks.py.  When the module could not be
\* imported no handler serves it: it ends without a response (no status code,
\* no body) and without a store operation.  Otherwise it arrives at the route.
Route(p, r, pc) ==
    IF ImportError THEN Accept(p) /\ Step(p, [r EXCEPT !.pc = "done"])
    ELSE Arrive(p, r, pc)

\* task = await service.get_task(task_id), kept in the handler.
WithTask(r) == [r EXCEPT !.task = get_task(r.task_id)]

\* The outcome of the route's permission test on the task it read.
Refused(r, owner_only) ==
    LET task == CHOOSE task \in get_task(r.task_id) : TRUE
        current_user == CHOOSE current_user \in r.user : TRUE
    IN IF owner_only THEN CompleteAccessDenied(task, current_user)
       ELSE AccessDenied(task, current_user)

\* if not task: 404.  Then the permission test: an exception that is no
\* HTTPException is answered 500; 403 when the test refuses; else the handler
\* goes on as `allowed`.
Checked(r, refused, allowed) ==
    IF get_task(r.task_id) = {} THEN Respond(r, 404, {})
    ELSE IF refused = "AttributeError" THEN Respond(WithTask(r), 500, {})
    ELSE IF refused = "denied" THEN Respond(WithTask(r), 403, {})
    ELSE allowed

\* ---- GET /api/tasks/{task_id}
GetTask(p) ==
    \E token \in Presentable, task_id \in TaskIds :
        /\ Route(p, [Idle EXCEPT !.op = "get", !.token = token, !.task_id = task_id],
                  "get_lookup")
        /\ UNCHANGED <<users, tasks, counters, now, issued, id_log, foreign>>

\* return task, under response_model=Task: a stored document that is no valid
\* Task fails the validation of the response (500).
GetTaskRespond(r) ==
    IF \A task \in r.task : ValidTask(task) THEN Respond(r, 200, r.task)
    ELSE Respond(r, 500, {})

GetTaskLookup(p) ==
    /\ req[p].pc = "get_lookup"
    /\ Step(p, Checked(req[p], Refused(req[p], FALSE), GetTaskRespond(WithTask(req[p]))))
    /\ UNCHANGED <<users, tasks, counters, now, issued, id_log, nreq, foreign>>

\* ---- POST /api/tasks/
CreateTask(p) ==
    \E token \in Presentable, data \in NewTasks :
        /\ Route(p, [Idle EXCEPT !.op = "create", !.token = token, !.data = data,
                                  !.t = now],
                  "create_next_id")
        /\ UNCHANGED <<users, tasks, counters, now, issued, id_log, foreign>>

\* task_data: TaskCreate, parsed from the JSON body: the declared fields; a
\* key that TaskCreate does not declare is ignored.
TaskCreate(body) ==
    [title |-> body.title, description |-> body.description,
     priority |-> body.priority, due_date |-> body.due_date]

\* JSON bodies that also name an owner.
OwnerBodies ==
    {[title |-> "B", description |-> "b", priority |-> "low", due_date |-> 3,
      user_id |-> 3]}

\* POST /api/tasks/ with such a body (target: the user_id the body names).
CreateTaskAs(p) ==
    \E token \in Presentable, body \in OwnerBodies :
        /\ Route(p, [Idle EXCEPT !.op = "create", !.token = token,
                                  !.data = TaskCreate(body), !.target = body.user_id,
                                  !.t = now],
                  "create_next_id")
        /\ UNCHANGED <<users, tasks, counters, now, issued, id_log, foreign>>

\* create_task: id=await self._get_next_id(db)
CreateTaskNextId(p) ==
    /\ req[p].pc = "create_next_id"
    /\ counters' = get_next_id("tasks")
    /\ id_log' = [id_log EXCEPT !["tasks"] = Append(@, counters'["tasks"])]
    /\ Step(p, [req[p] EXCEPT !.pc = "create_insert", !.id = counters'["tasks"]])
    /\ UNCHANGED <<users, tasks, now, issued, nreq, foreign>>

\* The users in whose name TaskService.create_task is called directly.
Creators == {1}

\* TaskService.create_task(task_data, user_id) called directly: the clock is
\* read, then _get_next_id is awaited.
TaskService_create_task(p) ==
    \E data \in NewTasks, user_id \in Creators :
        /\ Call(p, [Idle EXCEPT !.op = "create_task", !.data = data,
                                !.user_id = user_id, !.t = now,
                                !.pc = "create_next_id"])
        /\ UNCHANGED <<users, tasks, counters, now, issued, id_log, foreign>>

\* create_task: await db.tasks.insert_one(task.model_dump()); db.tasks has a
\* unique index on id.  The task is returned; the route answers 201 with it.
CreateTaskInsert(p) ==
    /\ req[p].pc = "create_insert"
    /\ LET r == req[p]
           task == Task(r.id, r.data, r.user_id, r.t)
       IN IF \E t \in tasks : t.id = task.id
          THEN /\ Step(p, Respond(r, 500, {}))
               /\ tasks' = tasks
          ELSE /\ tasks' = tasks \cup {task}
               /\ Step(p, Respond(r, IF r.op \in ServiceCalls THEN 200 ELSE 201,
                                  {task}))
    /\ UNCHANGED <<users, counters, now, issued, id_log, nreq, foreign>>

\* ---- PUT /api/tasks/{task_id}
UpdateTask(p) ==
    \E token \in Presentable, task_id \in TaskIds, data \in Patches :
        /\ Route(p, [Idle EXCEPT !.op = "update", !.token = token,
                                  !.task_id = task_id, !.data = data],
                  "update_lookup")
        /\ UNCHANGED <<users, tasks, counters, now, issued, id_log, foreign>>

\* Request bodies of PUT that set no field, one field, an optional field to
\* null, two fields, and every field.
PatchShapes ==
    {NoPatch,
     [NoPatch EXCEPT !.title = "U"],
     [NoPatch EXCEPT !.description = NoText],
     [NoPatch EXCEPT !.priority = "low", !.status = "cancelled"],
     [NoPatch EXCEPT !.due_date = 5],
     [title |-> "V", description |-> "d", priority |-> "urgent",
      status |-> "completed", due_date |-> None]}

\* PUT /api/tasks/{task_id} with a body of any of these shapes.
UpdateTaskFields(p) ==
    \E token \in Presentable, task_id \in TaskIds, data \in PatchShapes :
        /\ Route(p, [Idle EXCEPT !.op = "update", !.token = token,
                                  !.task_id = task_id, !.data = data],
                  "update_lookup")
        /\ UNCHANGED <<users, tasks, counters, now, issued, id_log, foreign>>

\* Request bodies of PUT that set a field to null, and two that do not
\* validate.
NullPatches ==
    {[NoPatch EXCEPT !.title = NoText],
     [NoPatch EXCEPT !.priority = NoText],
     [NoPatch EXCEPT !.status = NoText],
     [NoPatch EXCEPT !.due_date = None],
     [NoPatch EXCEPT !.title = EmptyTitle],
     [NoPatch EXCEPT !.title = LongTitle]}

\* PUT /api/tasks/{task_id} with such a body: no response when the module of
\* the route could not be imported; else 401 from the dependency, else 422
\* when the body does not validate, else the handler starts.
UpdateTaskNull(p) ==
    \E token \in Presentable, task_id \in TaskIds, data \in NullPatches :
        /\ Accept(p)
        /\ LET r == [Idle EXCEPT !.op = "update", !.token = token,
                                 !.task_id = task_id, !.data = data]
               current_user == Authenticated(token)
           IN Step(p, IF ImportError THEN [r EXCEPT !.pc = "done"]
                      ELSE IF current_user = {} THEN Respond(r, 401, {})
                      ELSE IF ~ValidTaskUpdate(data) THEN Respond(r, 422, {})
                      ELSE [r EXCEPT !.user = current_user, !.pc = "update_lookup"])
        /\ UNCHANGED <<users, tasks, counters, now, issued, id_log, foreign>>

\* task_data: TaskUpdate, parsed from the JSON body: the declared fields that
\* the body gives are set; a key that TaskUpdate does not declare is ignored.
TaskUpdate(body) ==
    [f \in DOMAIN NoPatch |-> IF f \in DOMAIN body THEN body[f] ELSE NoPatch[f]]

\* JSON bodies of PUT that also name an id, an owner and a creation time.
ReownBodies ==
    {[status |-> "in_progress", id |-> 9, user_id |-> 3, created_at |-> 5]}

\* PUT /api/tasks/{task_id} with such a body (target: the user_id it names).
UpdateTaskReown(p) ==
    \E token \in Presentable, task_id \in TaskIds, body \in ReownBodies :
        /\ Route(p, [Idle EXCEPT !.op = "update", !.token = token,
                                  !.task_id = task_id, !.data = TaskUpdate(body),
                                  !.target = body.user_id],
                  "update_lookup")
        /\ UNCHANGED <<users, tasks, counters, now, issued, id_log, foreign>>

\* service.update_task builds update_data (the clock is read here) and awaits
\* find_one_and_update.
ToWrite(r) == [r EXCEPT !.pc = "write", !.t = now]

\* TaskService.update_task(task_id, task_data) called directly with a
\* TaskUpdate of `patches`.
update_task(p, patches) ==
    \E task_id \in TaskIds, data \in patches :
        /\ Call(p, ToWrite([Idle EXCEPT !.op = "update_task", !.task_id = task_id,
                                        !.data = data, !.task = get_task(task_id)]))
        /\ UNCHANGED <<users, tasks, counters, now, issued, id_log, foreign>>

\* TaskUpdate(status=TaskStatus.COMPLETED), as complete_task builds it.
CompletePatch == [NoPatch EXCEPT !.status = "completed"]

\* TaskUpdate(assigned_to=...), as assign_task builds it: TaskUpdate declares
\* no assigned_to field, the keyword is dropped and no field is set.
AssignPatch(target) == TaskUpdate([assigned_to |-> target])

\* update_task called with one field set.
TaskService_update_task(p) == update_task(p, Patches)

\* update_task called with no field, one field, an optional field as None,
\* two fields, and every field set.
TaskService_update_task_Fields(p) == update_task(p, PatchShapes)

\* update_task called with a TaskUpdate that sets a field to None (the
\* TaskUpdate objects that can be built: the patches that validate), with the
\* patch of a completion and with the patch of an assignment.
TaskService_update_task_Null(p) ==
    update_task(p, {data \in NullPatches : ValidTaskUpdate(data)}
                       \cup {CompletePatch} \cup {AssignPatch(t) : t \in Targets})

\* update_task called with TaskUpdate(**body) for a body that also names an id,
\* an owner and a creation time, and with the patches of a completion and of
\* an assignment (target: the user the body or the assignment names).
TaskService_update_task_Reown(p) ==
    \E task_id \in TaskIds, body \in ReownBodies \cup {[status |-> "completed"]}
                                    \cup {[assigned_to |-> t] : t \in Targets} :
        /\ Call(p, ToWrite([Idle EXCEPT
                                !.op = "update_task", !.task_id = task_id,
                                !.data = TaskUpdate(body),
                                !.target = IF "user_id" \in DOMAIN body THEN body.user_id
                                           ELSE IF "assigned_to" \in DOMAIN body
                                                THEN body.assigned_to
                                                ELSE None,
                                !.task = get_task(task_id)]))
        /\ UNCHANGED <<users, tasks, counters, now, issued, id_log, foreign>>

UpdateTaskLookup(p) ==
    /\ req[p].pc = "update_lookup"
    /\ Step(p, Checked(req[p], Refused(req[p], FALSE), ToWrite(WithTask(req[p]))))
    /\ UNCHANGED <<users, tasks, counters, now, issued, id_log, nreq, foreign>>

\* A mutant: the task is read when update_task is called, and that copy is
\* patched and written back whole.
TaskWrite_Stale(p) ==
    /\ req[p].pc = "write"
    /\ LET r == req[p]
           found == get_task(r.task_id)
       IN IF found = {}
          THEN /\ tasks' = tasks
               /\ Step(p, Respond(r, IF r.op \in ServiceCalls THEN 200 ELSE 500, {}))
          ELSE LET old == CHOOSE t \in found : TRUE
                   new == SetFields(CHOOSE t \in r.task : TRUE, r.data, r.t)
               IN /\ tasks' = (tasks \ {old}) \cup {new}
                  /\ Step(p, IF ValidTask(new) THEN Respond(r, 200, {new})
                             ELSE Respond(r, 500, {}))
    /\ UNCHANGED <<users, counters, now, issued, id_log, nreq, foreign>>

\* A mutant: the write also makes the user the request names (in its body,
\* or as the assignee) the owner of the task.
TaskWrite_Reown(p) ==
    /\ req[p].pc = "write"
    /\ LET r == req[p]
           found == get_task(r.task_id)
       IN IF found = {}
          THEN /\ tasks' = tasks
               /\ Step(p, Respond(r, IF r.op \in ServiceCalls THEN 200 ELSE 500, {}))
          ELSE LET old == CHOOSE t \in found : TRUE
                   new == [SetFields(old, r.data, r.t) EXCEPT
                              !.user_id = IF r.target # None THEN r.target ELSE @]
               IN /\ tasks' = (tasks \ {old}) \cup {new}
                  /\ Step(p, IF ValidTask(new) THEN Respond(r, 200, {new})
                             ELSE Respond(r, 500, {}))
    /\ UNCHANGED <<users, counters, now, issued, id_log, nreq, foreign>>

\* TaskService.update_task: find_one_and_update({"id": task_id}, {"$set": ...},
\* return_document=True), then Task(**result): a stored document that does
\* not validate raises (500); None is returned when no document has the id.
\* The route returns the result; None does not validate against
\* response_model=Task: 500.
TaskWrite(p) ==
    /\ req[p].pc = "write"
    /\ LET r == req[p]
           found == get_task(r.task_id)
       IN IF found = {}
          THEN /\ tasks' = tasks
               /\ Step(p, Respond(r, IF r.op \in ServiceCalls THEN 200 ELSE 500, {}))
          ELSE LET old == CHOOSE t \in found : TRUE
                   new == SetFields(old, r.data, r.t)
               IN /\ tasks' = (tasks \ {old}) \cup {new}
                  /\ Step(p, IF ValidTask(new) THEN Respond(r, 200, {new})
                             ELSE Respond(r, 500, {}))
    /\ UNCHANGED <<users, counters, now, issued, id_log, nreq, foreign>>

\* ---- DELETE /api/tasks/{task_id}
DeleteTask(p) ==
    \E token \in Presentable, task_id \in TaskIds :
        /\ Route(p, [Idle EXCEPT !.op = "delete", !.token = token, !.task_id = task_id],
                  "delete_lookup")
        /\ UNCHANGED <<users, tasks, counters, now, issued, id_log, foreign>>

ToDelete(r) == [r EXCEPT !.pc = "delete"]

DeleteTaskLookup(p) ==
    /\ req[p].pc = "delete_lookup"
    /\ Step(p, Checked(req[p], Refused(req[p], FALSE), ToDelete(WithTask(req[p]))))
    /\ UNCHANGED <<users, tasks, counters, now, issued, id_log, nreq, foreign>>

\* TaskService.delete_task(task_id) called directly.
TaskService_delete_task(p) ==
    \E task_id \in TaskIds :
        /\ Call(p, ToDelete([Idle EXCEPT !.op = "delete_task", !.task_id = task_id]))
        /\ UNCHANGED <<users, tasks, counters, now, issued, id_log, foreign>>

\* TaskService.delete_task: delete_one({"id": task_id}), and
\* return result.deleted_count > 0; the route ignores the result and answers
\* 204.
DeleteTaskDelete(p) ==
    /\ req[p].pc = "delete"
    /\ tasks' = {t \in tasks : t.id # req[p].task_id}
    /\ Step(p, IF req[p].op \in ServiceCalls
                THEN Respond(req[p], 200, {tasks' # tasks})
                ELSE Respond(req[p], 204, {}))
    /\ UNCHANGED <<users, counters, now, issued, id_log, nreq, foreign>>

\* ---- POST /api/tasks/{task_id}/complete
CompleteTask(p) ==
    \E token \in Presentable, task_id \in TaskIds :
        /\ Route(p, [Idle EXCEPT !.op = "complete", !.token = token,
                                  !.task_id = task_id],
                  "complete_lookup")
        /\ UNCHANGED <<users, tasks, counters, now, issued, id_log, foreign>>

\* update_task(task_id, TaskUpdate(status=TaskStatus.COMPLETED))
ToComplete(r) == ToWrite([r EXCEPT !.data = CompletePatch])

CompleteTaskLookup(p) ==
    /\ req[p].pc = "complete_lookup"
    /\ Step(p, Checked(req[p], Refused(req[p], TRUE), ToComplete(WithTask(req[p]))))
    /\ UNCHANGED <<users, tasks, counters, now, issued, id_log, nreq, foreign>>

\* ---- POST /api/tasks/{task_id}/assign
AssignTask(p) ==
    \E token \in Presentable, task_id \in TaskIds, target \in Targets :
        /\ Route(p, [Idle EXCEPT !.op = "assign", !.token = token,
                                  !.task_id = task_id, !.target = target],
                  "assign_lookup")
        /\ UNCHANGED <<users, tasks, counters, now, issued, id_log, foreign>>

\* The permission test passed: "Verify target user exists" is next.
ToTarget(r) == [r EXCEPT !.pc = "assign_target"]

\* User ids that no stored user has.
UnknownTargets == {9}

\* POST /api/tasks/{task_id}/assign naming a user that is not stored.
AssignTaskUnknown(p) ==
    \E token \in Presentable, task_id \in TaskIds, target \in UnknownTargets :
        /\ Route(p, [Idle EXCEPT !.op = "assign", !.token = token,
                                  !.task_id = task_id, !.target = target],
                  "assign_lookup")
        /\ UNCHANGED <<users, tasks, counters, now, issued, id_log, foreign>>

AssignTaskLookup(p) ==
    /\ req[p].pc = "assign_lookup"
    /\ Step(p, Checked(req[p], Refused(req[p], FALSE), ToTarget(WithTask(req[p]))))
    /\ UNCHANGED <<users, tasks, counters, now, issued, id_log, nreq, foreign>>

\* "Verify target user exists", then update_task(task_id,
\* TaskUpdate(assigned_to=...)): TaskUpdate declares no assigned_to field, the
\* keyword is dropped and no field of the patch is set.
AssignTaskTarget(p) ==
    /\ req[p].pc = "assign_target"
    /\ Step(p, IF get_user_by_id(req[p].target) = {}
                THEN Respond(req[p], 404, {})
                ELSE ToWrite([req[p] EXCEPT !.data = AssignPatch(req[p].target)]))
    /\ UNCHANGED <<users, tasks, counters, now, issued, id_log, nreq, foreign>>

\* ---- GET /api/tasks/ (list_tasks, TaskService.get_user_tasks)

\* A mutant: the status and priority filters are left out of the query.
ListQuery_Unfiltered(d, user_id, status, priority) == d.user_id = user_id

\* query = {"user_id": user_id}, with status and priority when they are given.
ListQuery(d, user_id, status, priority) ==
    /\ d.user_id = user_id
    /\ status # NoText => d.status = status
    /\ priority # NoText => d.priority = priority

\* db.tasks.find(query).skip(skip).limit(limit).to_list(length=limit): limit is
\* at most 100, so the reply to find holds the whole result.  The lists that
\* can be returned: the cursor's first skip documents are passed over and its
\* next limit documents are the result.
get_user_tasks(user_id, status, priority, skip, limit) ==
    LET found == {d \in tasks : ListQuery(d, user_id, status, priority)}
    IN UNION {FirstDocs(found \ skipped, limit) : skipped \in FirstDocs(found, skip)}

\* Query parameters: no filter (None) or one; skip >= 0; 1 <= limit <= 100.
ListFilters ==
    [status : {NoText, "pending"}, priority : {NoText, "high"},
     skip : {0, 1}, limit : {1, 2}]

ListTasks(p) ==
    \E token \in Presentable, data \in ListFilters :
        /\ Route(p, [Idle EXCEPT !.op = "list", !.token = token, !.data = data],
                  "list_find")
        /\ UNCHANGED <<users, tasks, counters, now, issued, id_log, foreign>>

\* TaskService.get_user_tasks(user_id, status, priority, skip, limit) called
\* directly.
TaskService_get_user_tasks(p) ==
    \E user_id \in Creators, data \in ListFilters :
        /\ Call(p, [Idle EXCEPT !.op = "get_user_tasks", !.user_id = user_id,
                                !.data = data, !.pc = "list_find"])
        /\ UNCHANGED <<users, tasks, counters, now, issued, id_log, foreign>>

\* The reply to find: the list of documents returned.  The route answers it
\* under response_model=List[Task]: a document that is no valid Task fails the
\* validation of the response (500).
ListTasksFind(p) ==
    /\ req[p].pc = "list_find"
    /\ LET r == req[p]
       IN \E found \in get_user_tasks(r.user_id, r.data.status, r.data.priority,
                                      r.data.skip, r.data.limit) :
            Step(p, IF r.op = "list" /\ \E d \in found : ~ValidTask(d)
                    THEN Respond(r, 500, {})
                    ELSE Respond(r, 200, found))
    /\ UNCHANGED <<users, tasks, counters, now, issued, id_log, nreq, foreign>>

\* ---- TaskService.get_task_statistics(user_id)

\* The users whose statistics are asked for.
StatOwners == {1, 2}

\* The return of the dictionary built (the list of documents ends with the
\* call).
StatisticsReturn(r, result) == Respond([r EXCEPT !.task = {}], 200, {result})

\* What the loop of get_task_statistics reads of a document.
Counted(d) == <<d.status, d.priority, d.due_date>>

\* One document of docs for each way a document of docs can count (and be, or
\* not be, in `same`): the result is the same whichever of the documents that
\* count alike is the one that to_list leaves out.
Alike(docs, same) ==
    LET key(d) == <<Counted(d), d \in same>>
    IN {CHOOSE d \in docs : key(d) = k : k \in {key(d) : d \in docs}}

\* What to_list(length=StatsLength) can hold at the end, when the reply to find
\* did not end the cursor.  The first batch had FirstBatch of the documents
\* stored at the call: `first`, documents changed or deleted since, and
\* documents among `same`, those stored unchanged.  The last batch brings the
\* documents not yet returned as they are stored now (`left` is those and the
\* unchanged ones), and to_list stops when it holds StatsLength documents: it
\* leaves out the last ones of a cursor whose order is the store's choice (any
\* of them; when it is one document, one for each way it can count).
StatisticsFetched(first, same, left) ==
    LET over == Cardinality(left) + Cardinality(first) - StatsLength
        out == IF over <= 0 THEN {{}}
               ELSE IF over = 1 THEN {{d} : d \in Alike(left, same)}
               ELSE Choose(left, over)
    IN {first \cup (left \ o) :
          o \in {o \in out :
                   Cardinality((left \ o) \cap same) >= FirstBatch - Cardinality(first)}}

\* The call and the reply to find: the first batch, FirstBatch documents of
\* those stored (which of them is the store's choice, left open until the
\* result is built: the call keeps the documents it was drawn from).  A batch
\* that is not full ends the cursor.
Statistics(p) ==
    \E user_id \in StatOwners :
        /\ Accept(p)
        /\ LET r == [Idle EXCEPT !.op = "statistics", !.data = [user_id |-> user_id],
                                 !.task = Matching(user_id)]
           IN Step(p, IF Cardinality(r.task) < FirstBatch
                      THEN StatisticsReturn(r, get_task_statistics(r.task, now))
                      ELSE [r EXCEPT !.pc = "stats_more"])
        /\ UNCHANGED <<users, tasks, counters, now, issued, id_log, foreign>>

\* to_list awaits the next batch: the documents that the first batch did not
\* hold, as they are stored now.
StatisticsMore(p) ==
    /\ req[p].pc = "stats_more"
    /\ LET r == req[p]
           same == r.task \cap Matching(r.data.user_id)
       IN \E first \in SUBSET (r.task \ same) :
            /\ Cardinality(first) <= FirstBatch
            /\ LET left == {d \in Matching(r.data.user_id) :
                              \A f \in first : f.id # d.id}
               IN \E result \in {get_task_statistics(fetched, now) :
                                    fetched \in StatisticsFetched(first, same, left)} :
                    Step(p, StatisticsReturn(r, result))
    /\ UNCHANGED <<users, tasks, counters, now, issued, id_log, nreq, foreign>>

\* The clock advances by a second or by a token lifetime.
Tick ==
    /\ TickCount(now) < MaxTicks
    /\ \E d \in {1, TokenLifetime} : now' = now + d
    /\ resp' = {}
    /\ UNCHANGED <<users, tasks, counters, req, issued, id_log, seen, patched, nreq,
                   foreign>>

-----------------------------------------------------------------------------
\* Databases the service can start on.

\* An account that an operator disabled in the store.
DisabledUser ==
    [UserInDB(1, "e1", "n1", "pw1", 0) EXCEPT !.is_active = FALSE]

InitCommon ==
    /\ tasks = {}
    /\ now = 0
    /\ req = [p \in Procs |-> Idle]
    /\ resp = {}
    /\ seen = [p \in Procs |-> {}]
    /\ patched = [k \in {} |-> NoPatch]
    /\ issued = {}
    /\ foreign = StrayTokens \cup {ForgedToken}
    /\ id_log = [e \in Entities |-> <<>>]
    /\ nreq = 0

\* The authentication endpoints, on an empty database or on one that holds a
\* disabled account.
Init ==
    /\ InitCommon
    /\ \/ users = {} /\ counters = [e \in Entities |-> 0]
       \/ users = {DisabledUser} /\ counters = [e \in Entities |-> IF e = "users" THEN 1 ELSE 0]

Next ==
    \/ \E p \in Procs :
        \/ Register(p)
        \/ RegisterUsername(p)
        \/ RegisterNextId(p)
        \/ RegisterInsert(p)
        \/ Login(p)
        \/ LoginForAccessToken(p)
        \/ LoginTouch(p)

Spec == Init /\ [][Next]_vars

\* The token endpoints, on a database that holds an active and a disabled user.
InitTokens ==
    /\ InitCommon
    /\ users = {DisabledUser, UserInDB(2, "e2", "n2", "pw1", 0)}
    /\ counters = [e \in Entities |-> IF e = "users" THEN 2 ELSE 0]

NextTokens ==
    \/ Tick
    \/ \E p \in Procs :
        \/ LoginForAccessToken(p)
        \/ LoginTouch(p)
        \/ Me(p)
        \/ Refresh(p)

SpecTokens == InitTokens /\ [][NextTokens]_vars

\* The task endpoints, on a database that holds an owner (1), a disabled user
\* (2) and an admin (3), one task of the owner, and with a token of each user
\* and the tokens the service did not issue in the clients' hands.
Owner == UserInDB(1, "e1", "n1", "pw1", 0)
Admin == [UserInDB(3, "e3", "n3", "pw1", 0) EXCEPT !.is_admin = TRUE]
Bystander == [UserInDB(2, "e2", "n2", "pw1", 0) EXCEPT !.is_active = FALSE]

InitTasks ==
    /\ users = {Owner, Bystander, Admin}
    /\ counters = [e \in Entities |-> IF e = "users" THEN 3 ELSE 1]
    /\ tasks = {Task(1, [title |-> "T", description |-> NoText, priority |-> "medium",
                         due_date |-> None], 1, 0)}
    /\ now = 1
    /\ req = [p \in Procs |-> Idle]
    /\ resp = {}
    /\ seen = [p \in Procs |-> {}]
    /\ patched = [k \in {} |-> NoPatch]
    /\ issued = {create_access_token(u, 0) : u \in {Owner, Bystander, Admin}}
    /\ foreign = StrayTokens \cup {ForgedToken}
    /\ id_log = [e \in Entities |-> <<>>]
    /\ nreq = 0

NextTasks ==
    \/ \E p \in Procs :
        \/ ListTasks(p)
        \/ GetTask(p)
        \/ CreateTask(p)
        \/ CreateTaskAs(p)
        \/ UpdateTask(p)
        \/ DeleteTask(p)
        \/ CompleteTask(p)
        \/ AssignTask(p)
        \/ AssignTaskUnknown(p)

SpecTasks == InitTasks /\ [][NextTasks]_vars

\* Every route with every step of its handler, and the direct calls of
\* TaskService, on the same database.
NextApi ==
    \/ Tick
    \/ \E p \in Procs :
        \/ Register(p) \/ RegisterFlags(p) \/ RegisterUsername(p)
        \/ RegisterNextId(p) \/ RegisterInsert(p)
        \/ Login(p) \/ LoginForAccessToken(p) \/ LoginTouch(p)
        \/ Me(p) \/ Refresh(p)
        \/ ListTasks(p) \/ ListTasksFind(p)
        \/ GetTask(p) \/ GetTaskLookup(p)
        \/ CreateTask(p) \/ CreateTaskAs(p) \/ CreateTaskNextId(p) \/ CreateTaskInsert(p)
        \/ UpdateTask(p) \/ UpdateTaskFields(p) \/ UpdateTaskNull(p) \/ UpdateTaskReown(p)
        \/ UpdateTaskLookup(p) \/ TaskWrite(p)
        \/ DeleteTask(p) \/ DeleteTaskLookup(p) \/ DeleteTaskDelete(p)
        \/ CompleteTask(p) \/ CompleteTaskLookup(p)
        \/ AssignTask(p) \/ AssignTaskUnknown(p) \/ AssignTaskLookup(p)
        \/ AssignTaskTarget(p)
        \/ TaskService_create_task(p) \/ TaskService_update_task(p)
        \/ TaskService_update_task_Fields(p) \/ TaskService_update_task_Null(p)
        \/ TaskService_update_task_Reown(p) \/ TaskService_delete_task(p)
        \/ TaskService_get_user_tasks(p)
        \/ Statistics(p) \/ StatisticsMore(p)

SpecApi == InitTasks /\ [][NextApi]_vars

\* Allocations of user ids by registrations and of task ids by calls of
\* TaskService.create_task, on a database that holds the owner.
InitIds ==
    /\ users = {Owner}
    /\ counters = [e \in Entities |-> IF e = "users" THEN 1 ELSE 0]
    /\ tasks = {}
    /\ now = 1
    /\ req = [p \in Procs |-> Idle]
    /\ resp = {}
    /\ seen = [p \in Procs |-> {}]
    /\ patched = [k \in {} |-> NoPatch]
    /\ issued = {create_access_token(Owner, 0)}
    /\ foreign = {}
    /\ id_log = [e \in Entities |-> <<>>]
    /\ nreq = 0

NextIds ==
    \/ \E p \in Procs :
        \/ Register(p)
        \/ RegisterUsername(p)
        \/ RegisterNextId(p)
        \/ RegisterInsert(p)
        \/ TaskService_create_task(p)
        \/ CreateTaskNextId(p)
        \/ CreateTaskInsert(p)

SpecIds == InitIds /\ [][NextIds]_vars

\* n tasks of the owner, in every status and priority, without a due date and
\* due at 0, 1 and 2.
OwnerTasks(n) ==
    {[id |-> i, title |-> "T", description |-> NoText,
      priority |-> IF i % 2 = 0 THEN "high" ELSE "low",
      due_date |-> (i % 4) - 1,
      status |-> IF i % 3 = 0 THEN "completed"
                 ELSE IF i % 3 = 1 THEN "pending" ELSE "in_progress",
      user_id |-> 1, created_at |-> 0, updated_at |-> 0] : i \in 1..n}

\* A store with n tasks of the owner and one of the admin.
InitStore(n) ==
    /\ users = {Owner, Admin}
    /\ counters = [e \in Entities |-> IF e = "users" THEN 3 ELSE n + 1]
    /\ tasks = OwnerTasks(n) \cup {Task(n + 1, [title |-> "A", description |-> NoText,
                                              priority |-> "urgent", due_date |-> 0], 3, 0)}
    /\ now = 1
    /\ req = [p \in Procs |-> Idle]
    /\ resp = {}
    /\ seen = [p \in Procs |-> {}]
    /\ patched = [k \in {} |-> NoPatch]
    /\ issued = {create_access_token(Owner, 0)}
    /\ foreign = {}
    /\ id_log = [e \in Entities |-> <<>>]
    /\ nreq = 0

\* Statistics of a few tasks, of as many as to_list takes and of one more, at
\* several times.
InitStatsMany == \E n \in {3, StatsLength, StatsLength + 1} : InitStore(n)

NextStatsMany ==
    \/ Tick
    \/ \E p \in Procs :
        \/ Statistics(p)
        \/ StatisticsMore(p)

SpecStatsMany == InitStatsMany /\ [][NextStatsMany]_vars

\* Statistics while tasks of the owner are created, updated and deleted (by
\* calls of TaskService), on a store that one batch holds and on one that
\* takes two.
InitStats == \E n \in {3, FirstBatch + 1} : InitStore(n)

NextStats ==
    \/ \E p \in Procs :
        \/ Statistics(p)
        \/ StatisticsMore(p)
        \/ TaskService_create_task(p)
        \/ CreateTaskNextId(p)
        \/ CreateTaskInsert(p)
        \/ TaskService_update_task(p)
        \/ TaskWrite(p)
        \/ TaskService_delete_task(p)
        \/ DeleteTaskDelete(p)

SpecStats == InitStats /\ [][NextStats]_vars

\* Listings of the owner's four tasks (calls of TaskService.get_user_tasks)
\* while they are updated.
InitList == InitStore(4)

NextList ==
    \/ \E p \in Procs :
        \/ TaskService_get_user_tasks(p)
        \/ ListTasksFind(p)
        \/ TaskService_update_task(p)
        \/ TaskWrite(p)

SpecList == InitList /\ [][NextList]_vars

\* One client that sends a request when the last one is answered: register,
\* login, create, complete, delete, get.  It starts on an empty database, or
\* registered and logged in, or with a task created.
InitJourney ==
    \/ /\ InitCommon
       /\ users = {}
       /\ counters = [e \in Entities |-> 0]
    \/ InitIds
    \/ InitStore(1)

NextJourney ==
    \/ Register(1)
    \/ RegisterUsername(1)
    \/ RegisterNextId(1)
    \/ RegisterInsert(1)
    \/ Login(1)
    \/ LoginTouch(1)
    \/ CreateTask(1)
    \/ CompleteTask(1)
    \/ DeleteTask(1)
    \/ GetTask(1)

SpecJourney == InitJourney /\ [][NextJourney]_vars

\* Calls of TaskService.update_task on two tasks of the owner, which differ in
\* every field a patch can set.
InitUpdates ==
    /\ users = {Owner}
    /\ counters = [e \in Entities |-> IF e = "users" THEN 1 ELSE 2]
    /\ tasks = {Task(1, [title |-> "T", description |-> NoText, priority |-> "medium",
                         due_date |-> None], 1, 0),
                Task(2, [title |-> "S", description |-> "s", priority |-> "high",
                         due_date |-> 7], 1, 0)}
    /\ now = 1
    /\ req = [p \in Procs |-> Idle]
    /\ resp = {}
    /\ seen = [p \in Procs |-> {}]
    /\ patched = [k \in {} |-> NoPatch]
    /\ issued = {create_access_token(Owner, 0)}
    /\ foreign = {}
    /\ id_log = [e \in Entities |-> <<>>]
    /\ nreq = 0

NextUpdates ==
    \/ \E p \in Procs :
        \/ TaskService_update_task_Fields(p)
        \/ TaskWrite(p)

SpecUpdates == InitUpdates /\ [][NextUpdates]_vars

\* Allocations from absent counters (an empty database), and allocations of
\* task ids (calls of TaskService.create_task) while tasks are deleted (calls
\* of TaskService.delete_task; the owner registered as user 1).
InitAlloc ==
    \/ /\ InitCommon
       /\ users = {}
       /\ counters = [e \in Entities |-> 0]
    \/ /\ users = {Owner}
       /\ counters = [e \in Entities |-> IF e = "users" THEN 1 ELSE 0]
       /\ tasks = {}
       /\ now = 1
       /\ req = [p \in Procs |-> Idle]
       /\ resp = {}
       /\ seen = [p \in Procs |-> {}]
       /\ patched = [k \in {} |-> NoPatch]
       /\ issued = {create_access_token(Owner, 0)}
       /\ foreign = {}
       /\ id_log = [e \in Entities |-> IF e = "users" THEN <<1>> ELSE <<>>]
       /\ nreq = 0

NextAlloc ==
    \/ \E p \in Procs :
        \/ Register(p)
        \/ RegisterUsername(p)
        \/ RegisterNextId(p)
        \/ RegisterInsert(p)
        \/ TaskService_create_task(p)
        \/ CreateTaskNextId(p)
        \/ CreateTaskInsert(p)
        \/ TaskService_delete_task(p)
        \/ DeleteTaskDelete(p)

SpecAlloc == InitAlloc /\ [][NextAlloc]_vars

\* Creations, updates with null fields, completions and assignments of the
\* owner's task: the PUT requests, and the calls of TaskService that the routes
\* make.
InitNulls ==
    /\ users = {Owner, Bystander}
    /\ counters = [e \in Entities |-> IF e = "users" THEN 2 ELSE 1]
    /\ tasks = {Task(1, [title |-> "T", description |-> "d", priority |-> "medium",
                         due_date |-> 7], 1, 0)}
    /\ now = 1
    /\ req = [p \in Procs |-> Idle]
    /\ resp = {}
    /\ seen = [p \in Procs |-> {}]
    /\ patched = [k \in {} |-> NoPatch]
    /\ issued = {create_access_token(Owner, 0)}
    /\ foreign = {}
    /\ id_log = [e \in Entities |-> <<>>]
    /\ nreq = 0

NextNulls ==
    \/ \E p \in Procs :
        \/ UpdateTaskNull(p)
        \/ TaskService_create_task(p)
        \/ CreateTaskNextId(p)
        \/ CreateTaskInsert(p)
        \/ TaskService_update_task_Null(p)
        \/ TaskWrite(p)

SpecNulls == InitNulls /\ [][NextNulls]_vars

\* Updates (whose bodies name another owner), completions and assignments of
\* the owner's task and of tasks created meanwhile: the PUT requests, and the
\* calls of TaskService that the routes make.
NextReown ==
    \/ \E p \in Procs :
        \/ UpdateTaskReown(p)
        \/ TaskService_create_task(p)
        \/ CreateTaskNextId(p)
        \/ CreateTaskInsert(p)
        \/ TaskService_update_task_Reown(p)
        \/ TaskWrite(p)

SpecReown == InitTasks /\ [][NextReown]_vars

\* Calls of TaskService.create_task and TaskService.update_task while the
\* clock advances.
InitClock == InitStore(1)

NextClock ==
    \/ Tick
    \/ \E p \in Procs :
        \/ TaskService_create_task(p)
        \/ CreateTaskNextId(p)
        \/ CreateTaskInsert(p)
        \/ TaskService_update_task(p)
        \/ TaskWrite(p)

SpecClock == InitClock /\ [][NextClock]_vars

\* The authentication routes and the routes that write tasks, on a database
\* that holds a disabled user, an admin with a token, and a task of the admin.
InitFlags ==
    /\ users = {DisabledUser, Admin}
    /\ counters = [e \in Entities |-> IF e = "users" THEN 3 ELSE 1]
    /\ tasks = {Task(1, [title |-> "T", description |-> NoText, priority |-> "medium",
                         due_date |-> None], 3, 0)}
    /\ now = 1
    /\ req = [p \in Procs |-> Idle]
    /\ resp = {}
    /\ seen = [p \in Procs |-> {}]
    /\ patched = [k \in {} |-> NoPatch]
    /\ issued = {create_access_token(Admin, 0)}
    /\ foreign = {}
    /\ id_log = [e \in Entities |-> <<>>]
    /\ nreq = 0

NextFlags ==
    \/ \E p \in Procs :
        \/ RegisterFlags(p)
        \/ RegisterUsername(p)
        \/ RegisterNextId(p)
        \/ RegisterInsert(p)
        \/ Login(p)
        \/ LoginForAccessToken(p)
        \/ LoginTouch(p)
        \/ Me(p)
        \/ Refresh(p)
        \/ GetTask(p)
        \/ CreateTask(p)
        \/ UpdateTask(p)
        \/ DeleteTask(p)
        \/ CompleteTask(p)
        \/ AssignTask(p)

SpecFlags == InitFlags /\ [][NextFlags]_vars

-----------------------------------------------------------------------------
\* Properties.

TaskOps == {"list", "get", "create", "update", "delete", "complete", "assign"}

\* The requests being served and the one just answered.
InFlight == {req[p] : p \in Procs} \ {Idle}
Served == InFlight \cup resp

\* The values of a sequence.
Range(s) == {s[i] : i \in DOMAIN s}

\* The token verifies, has not expired at t, names a subject, and a user with
\* that id is stored.
Acceptable(token, t) ==
    /\ token.sig = Signature(SECRET_KEY, ALGORITHM)
    /\ token.exp >= t
    /\ token.sub # NoClaim
    /\ \E u \in users : token.sub = IntClaim(u.id)

\* The stored user that the token names.
Bearer(token) == {u \in users : token.sub = IntClaim(u.id)}

\* v is the stored user u as the API shows it.
ShownAs(v, u) ==
    /\ DOMAIN v = {"id", "email", "username", "full_name", "is_active", "is_admin",
                   "created_at", "last_login"}
    /\ \A f \in DOMAIN v : v[f] = u[f]

\* user may access task: the owner or an admin.
OwnerOrAdmin(user, task) == user.id = task.user_id \/ user.is_admin

\* C1: for each entity name, the values that next_id has returned to the
\* requests (two of which run concurrently, in any interleaving) are pairwise
\* distinct and form a contiguous integer range; two requests in flight never
\* hold the same id of one entity.
C1_NextIdDistinctContiguous ==
    /\ \A e \in Entities :
        LET s == id_log[e]
        IN /\ \A i, j \in DOMAIN s : i # j => s[i] # s[j]
           /\ \A i, j \in DOMAIN s : \A v \in s[i]..s[j] : v \in Range(s)
    /\ \A p, q \in Procs :
        (p # q /\ req[p].id # None /\ req[q].id # None
              /\ (req[p].op = "register") = (req[q].op = "register"))
            => req[p].id # req[q].id

\* Two creations are in flight and both have been given their id.
C1_Witness ==
    /\ req[1].pc = "create_insert" /\ req[2].pc = "create_insert"
    /\ Len(id_log["tasks"]) >= 2

\* C2: in every reachable state no two stored users share an email, a
\* username or an id.
C2_UsersUnique ==
    \A u, v \in users :
        u # v => u.email # v.email /\ u.username # v.username /\ u.id # v.id

\* Two registrations with the same email both passed the pre-checks; one has
\* inserted and the other's insert has just been refused.
C2_Witness ==
    \E r \in resp :
        /\ r.op = "register" /\ r.status = 500
        /\ \E u \in users : u.email = r.email /\ u.id # r.id /\ u.created_at = r.t

\* C3 (as claimed): a GET, PUT or DELETE of a stored task by a user who
\* presents a token that the service issued and that has not expired is
\* answered 403 when the user is neither the task's owner nor an admin, and is
\* carried out otherwise (GET answers 200 with the task, PUT 200, DELETE 204).
C3_AccessOwnerOrAdmin ==
    \A r \in resp :
        (r.op \in {"get", "update", "delete"} /\ Acceptable(r.token, now))
            => \A u \in Bearer(r.token), t \in get_task(r.task_id) :
                  IF OwnerOrAdmin(u, t)
                  THEN /\ r.status = IF r.op = "delete" THEN 204 ELSE 200
                       /\ r.op = "get" => r.body = {t}
                  ELSE r.status = 403

\* C4 (as claimed): a completion of a stored task by a user who presents such
\* a token is refused with 403 exactly when the user is neither the task's
\* owner nor an admin, and is answered 200 otherwise.
C4_CompleteOwnerOrAdmin ==
    \A r \in resp :
        (r.op = "complete" /\ Acceptable(r.token, now))
            => \A u \in Bearer(r.token), t \in get_task(r.task_id) :
                  r.status = IF OwnerOrAdmin(u, t) THEN 200 ELSE 403

\* C5 (as claimed): a task request whose token is not acceptable (none,
\* forged, expired, without subject or of no stored user) is answered 401
\* without having read a task or been given an id, and the step that answers
\* 401 changes neither tasks nor counters; a task request that is served beyond
\* its arrival runs as the user its token names; and every step that changes
\* tasks or counters is a step of such a request.
C5_AuthenticateFirst ==
    /\ [](\A r \in Served :
            r.op \in TaskOps
                => /\ ~Acceptable(r.token, now)
                        => /\ r.status = 401 /\ r.user = {}
                           /\ r.task = {} /\ r.id = None /\ r.body = {}
                   /\ r.status # 401
                        => /\ r.user # {}
                           /\ \A v \in r.user : r.token.sub = IntClaim(v.id))
    /\ [][/\ (\E r \in resp' : r.status = 401)
                => tasks' = tasks /\ counters' = counters
          /\ (tasks' # tasks \/ counters' # counters)
                => \E p \in Procs : req[p].user # {} /\ req'[p] # req[p]
         ]_vars

\* C6 (as claimed): a token issued at time t is accepted at every time up to
\* t + lifetime and rejected (401) at every later time, in every state of the
\* service (after later logins, refreshes and other requests).
C6_TokenLifetime ==
    \A r \in resp :
        (r.op \in {"me", "refresh"} /\ r.token \in issued)
            => /\ now <= r.token.iat + TokenLifetime => r.status = 200
               /\ now > r.token.iat + TokenLifetime => r.status = 401

\* C7 (as claimed): get_current_user returns a user exactly when the token
\* verifies, has not expired, has a subject and a user with that id is stored;
\* it is that user, active or not; in every other case the answer is 401.
C7_Authenticate ==
    \A r \in resp :
        r.op \in {"me", "refresh"}
            => IF Acceptable(r.token, now)
               THEN /\ r.status = 200
                    /\ \E u \in Bearer(r.token) : \A v \in r.user : ShownAs(v, u)
                    /\ Cardinality(r.user) = 1
                    /\ r.op = "me" => r.body = r.user
               ELSE r.status = 401 /\ r.user = {} /\ r.body = {}

\* C8: a registration whose email or username was already stored when it
\* arrived is answered 400; it never reaches the id allocation or the insert.
C8_DuplicateConflict ==
    \A r \in Served :
        (r.op = "register" /\ r.dup)
            => /\ r.pc \in {"reg_username", "done"}
               /\ r.pc = "done" => r.status = 400 /\ r.body = {}
               /\ r.id = None

\* A registration with a fresh email and a stored username has been answered 400.
C8_Witness ==
    \E r \in resp :
        /\ r.op = "register" /\ r.dup /\ r.status = 400
        /\ ~\E u \in users : u.email = r.email
        /\ \E u \in users : u.username = r.username

\* C9 (as claimed): every registration is answered 201 or 400; in particular
\* the one whose insert the unique index refuses is answered 400.
C9_RaceAnsweredConflict ==
    \A r \in resp : r.op = "register" => r.status \in {201, 400}

\* C10: the user returned by a successful registration and the user returned
\* by authenticate_user have neither a password nor a hashed_password field,
\* and the stored record of that user holds the digest of the password.
C10_NoSecretInView ==
    \A r \in resp :
        LET shown == IF r.op = "register" /\ r.status = 201 THEN r.body
                     ELSE IF r.op \in {"login", "token"} THEN r.user
                     ELSE {}
        IN \A v \in shown :
            /\ "password" \notin DOMAIN v
            /\ "hashed_password" \notin DOMAIN v
            /\ \E u \in users :
                /\ u.id = v.id
                /\ "hashed_password" \in DOMAIN u
                /\ u.hashed_password = hash_password(r.password)

\* A user created by a registration of this run (no active user is stored
\* initially) has logged in.
C10_Witness ==
    \E r \in resp :
        /\ r.op = "login" /\ r.status = 200
        /\ \E v \in r.user, b \in r.body :
              v.is_active /\ b.access_token.sub = IntClaim(v.id)

\* The fields a PUT body can set, and those the body r.data does set.
PatchFields == {"title", "description", "priority", "status", "due_date"}
FieldsSet(data) ==
    {f \in PatchFields : data[f] # (IF f = "due_date" THEN UnsetTime ELSE Unset)}

\* C11: update_task(id, patch) on a stored task changes, of the task with that
\* id, exactly the fields the patch sets (to the values given) and updated_at
\* (to the clock value update_task read), leaves every other field of that
\* task and every other task as they were, and returns the task as stored;
\* with an empty patch only updated_at can differ.
C11_UpdateFrame ==
    [][\A r \in resp' :
        (r.op = "update_task" /\ \E old \in tasks : old.id = r.task_id)
            => \E old \in tasks, new \in tasks' :
                /\ old.id = r.task_id /\ new.id = r.task_id
                /\ tasks' \ {new} = tasks \ {old}
                /\ r.status = 200 /\ r.body = {new}
                /\ DOMAIN new = DOMAIN old
                /\ \A f \in DOMAIN old :
                      new[f] = IF f \in FieldsSet(r.data) THEN r.data[f]
                               ELSE IF f = "updated_at" THEN r.t
                               ELSE old[f]
      ]_vars

\* An empty patch has been applied to task 2: the stored task differs from the
\* initial one in updated_at alone.
C11_Witness ==
    \E r \in resp, new \in tasks :
        /\ r.op = "update_task" /\ r.status = 200 /\ r.data = NoPatch
        /\ new.id = 2 /\ r.body = {new} /\ new.updated_at > 0
        /\ [new EXCEPT !.updated_at = 0]
             = Task(2, [title |-> "S", description |-> "s", priority |-> "high",
                        due_date |-> 7], 1, 0)

\* C12 (as claimed): an assign request of the owner or an admin (who presents
\* a token that the service issued and that has not expired) for a stored task
\* and a stored target user is answered 200; the stored task's assigned_to is
\* then the target user's id and the returned task shows it.
C12_AssignStored ==
    \A r \in resp :
        (r.op = "assign" /\ Acceptable(r.token, now) /\ get_user_by_id(r.target) # {})
            => \A u \in Bearer(r.token), old \in get_task(r.task_id) :
                  OwnerOrAdmin(u, old)
                    => /\ r.status = 200
                       /\ \A b \in r.body :
                            "assigned_to" \in DOMAIN b /\ b.assigned_to = r.target
                       /\ \E t \in tasks :
                            /\ t.id = r.task_id
                            /\ "assigned_to" \in DOMAIN t /\ t.assigned_to = r.target

\* C13 (as claimed): an assign request of the owner or an admin (who presents
\* such a token) for a stored task and a target that matches no stored user is
\* answered 404, a request of another user 403, and the step that answers
\* leaves the tasks (their updated_at included) as they are.
C13_AssignUnknownTarget ==
    /\ [](\A r \in resp :
            (r.op = "assign" /\ Acceptable(r.token, now)
                 /\ get_user_by_id(r.target) = {})
                => \A u \in Bearer(r.token), t \in get_task(r.task_id) :
                      r.status = IF OwnerOrAdmin(u, t) THEN 404 ELSE 403)
    /\ [][(\E r \in resp' : r.op = "assign") => tasks' = tasks]_vars

\* The stored tasks of a user, a count read from a result (0 for a key that is
\* absent) and the sum of a result's counts.
OwnedBy(user_id) == {d \in tasks : d.user_id = user_id}
CountIn(f, k) == IF k \in DOMAIN f THEN f[k] ELSE 0
RECURSIVE SumOver(_, _)
SumOver(f, keys) ==
    IF keys = {} THEN 0
    ELSE LET k == CHOOSE k \in keys : TRUE
         IN f[k] + SumOver(f, keys \ {k})

\* C14 (as claimed): the result of statistics(owner_id) has the number of the
\* owner's stored tasks as total, the number of them in status s as
\* by_status[s] and of priority q as by_priority[q], however many tasks there
\* are; the counts of each grouping sum to total.
C14_StatisticsCountAll ==
    \A r \in resp :
        r.op = "statistics"
            => \A b \in r.body :
                LET own == OwnedBy(r.data.user_id)
                IN /\ b.total = Cardinality(own)
                   /\ \A st \in Statuses :
                        CountIn(b.by_status, st)
                            = Cardinality({d \in own : d.status = st})
                   /\ \A q \in Priorities :
                        CountIn(b.by_priority, q)
                            = Cardinality({d \in own : d.priority = q})
                   /\ SumOver(b.by_status, DOMAIN b.by_status) = b.total
                   /\ SumOver(b.by_priority, DOMAIN b.by_priority) = b.total

\* C15 (as claimed): overdue_count is the number of the owner's stored tasks
\* that have a due date before now and are not completed.
C15_OverdueCount ==
    \A r \in resp :
        r.op = "statistics"
            => \A b \in r.body :
                b.overdue_count
                    = Cardinality({d \in OwnedBy(r.data.user_id) :
                                    /\ d.due_date # None
                                    /\ d.due_date < now
                                    /\ d.status # "completed"})

\* C16 (as claimed): the result of a statistics call is the statistics of the
\* owner's tasks as they were stored at one instant of the call.
C16_StatisticsSnapshot ==
    \A r \in resp :
        r.op = "statistics"
            => r.body \subseteq UNION {seen[p] : p \in {q \in Procs : req[q] = Idle}}

\* C17: the tasks that get_user_tasks(user_id, status, priority, skip, limit)
\* returns are stored tasks of user_id, have the status asked for when one is
\* given and the priority asked for when one is given, and are at most limit
\* in number.
C17_ListFiltered ==
    \A r \in resp :
        r.op = "get_user_tasks"
            => /\ r.status = 200
               /\ Cardinality(r.body) <= r.data.limit
               /\ \A b \in r.body :
                    /\ b \in tasks
                    /\ b.user_id = r.user_id
                    /\ r.data.status # NoText => b.status = r.data.status
                    /\ r.data.priority # NoText => b.priority = r.data.priority

\* A listing with status=pending has returned a task while the user also has a
\* task in another status and more pending tasks than the limit.
C17_Witness ==
    \E r \in resp :
        /\ r.op = "get_user_tasks" /\ r.data.status = "pending"
        /\ r.data.priority = NoText /\ r.body # {}
        /\ \E d \in tasks : d.user_id = r.user_id /\ d.status = "in_progress"
        /\ Cardinality({d \in tasks : d.user_id = r.user_id /\ d.status = "pending"})
             > r.data.limit

\* The id was allocated and no task with it is stored or about to be inserted.
Gone(id) ==
    /\ id >= 1 /\ id <= counters["tasks"]
    /\ ~\E t \in tasks : t.id = id
    /\ ~\E p \in Procs : req[p].op \in {"create", "create_task"} /\ req[p].id = id

\* C18 (as claimed): for one user who sends the requests one after the other,
\* with the token the login returned: a create is answered 201 with a pending
\* task of a positive id; a complete of a stored task of the user is answered
\* 200 with the task completed; a delete of a stored task of the user is
\* answered 204 and the task is gone; every GET of the id of a task that is
\* gone is answered 404.
C18_Journey ==
    \A r \in resp :
        (r.op \in TaskOps /\ Acceptable(r.token, now) /\ r.token \in issued)
            => /\ r.op = "create"
                  => /\ r.status = 201
                     /\ \E b \in r.body : b.status = "pending" /\ b.id > 0 /\ b \in tasks
               /\ (r.op = "complete"
                     /\ \E u \in Bearer(r.token), t \in tasks :
                            t.id = r.task_id /\ t.user_id = u.id)
                  => /\ r.status = 200
                     /\ \E b \in r.body :
                          b.id = r.task_id /\ b.status = "completed" /\ b \in tasks
               /\ (r.op = "delete" /\ r.status # 404) => r.status = 204 /\ Gone(r.task_id)
               /\ (r.op = "get" /\ Gone(r.task_id)) => r.status = 404

\* What the login contract answers to (email, password) on the stored users:
\* 401 when no user has the email or the password is not the one whose digest
\* is stored, 403 when that user is inactive, 200 otherwise.
LoginOutcome(email, password) ==
    LET known == {u \in users : u.email = email
                                /\ u.hashed_password = hash_password(password)}
    IN IF known = {} THEN 401
       ELSE IF \E u \in known : ~u.is_active THEN 403
       ELSE 200

\* C19: POST /api/auth/login answers 200 with a token of the user exactly when
\* a user has the email, the password verifies and the user is active; 401
\* when the email is unknown or the password does not verify; 403 when the
\* account is inactive; the steps that answer 401 or 403 issue no token.
C19_LoginOutcome ==
    /\ [](\A r \in resp :
            r.op = "login"
                => /\ r.status = LoginOutcome(r.email, r.password)
                   /\ IF r.status = 200
                      THEN \E b \in r.body, u \in users :
                              /\ u.email = r.email
                              /\ b.access_token.sub = IntClaim(u.id)
                              /\ b.access_token \in issued
                      ELSE r.body = {})
    /\ [][(\E r \in resp' : r.op = "login" /\ r.status # 200) => issued' = issued]_vars

\* The right password of the disabled account has been answered 403.
C19_Witness ==
    \E r \in resp :
        /\ r.op = "login" /\ r.status = 403
        /\ \E u \in users :
              u.email = r.email /\ ~u.is_active
                /\ u.hashed_password = hash_password(r.password)

\* C20 (as claimed): POST /api/auth/token answers what POST /api/auth/login
\* answers to the same credentials on the same users, and issues a token
\* exactly when login does.
C20_TokenAsLogin ==
    \A r \in resp :
        r.op = "token"
            => /\ r.status = LoginOutcome(r.email, r.password)
               /\ (r.body # {}) <=> (LoginOutcome(r.email, r.password) = 200)

\* C21: no update is lost.  Every field of a stored task that an applied
\* update set carries the value of the last applied update that set it; so
\* when two update requests for one task set disjoint fields, in whatever
\* order their steps interleave, the stored task carries the values of both.
C21_NoLostUpdate ==
    \A t \in tasks :
        t.id \in DOMAIN patched
            => \A f \in FieldsSet(patched[t.id]) : t[f] = patched[t.id][f]

\* An update of the title alone has been applied to a task whose due date
\* another update set after the first one was called: the stored task carries
\* both values.
C21_Witness ==
    \E r \in resp, new \in tasks :
        /\ \E old \in r.task : old.due_date # 5
        /\ r.op = "update_task" /\ r.status = 200 /\ FieldsSet(r.data) = {"title"}
        /\ new.id = r.task_id /\ new.title = r.data.title /\ new.due_date = 5
        /\ FieldsSet(patched[new.id]) = {"title", "due_date"}

\* C22 (as claimed): a refresh with a token that the service issued and that
\* has not expired is answered 200 with an access token that differs from the
\* token presented, whenever after the login it is made.
C22_RefreshDiffers ==
    \A r \in resp :
        (r.op = "refresh" /\ Acceptable(r.token, now) /\ r.token \in issued)
            => /\ r.status = 200
               /\ r.body # {}
               /\ \A b \in r.body : b.access_token # r.token

\* C23: for each entity name the k-th allocation returns k (the counter starts
\* at 0 when absent and the post-increment value is returned), so the values
\* issued increase strictly and none is issued twice, whether or not the task
\* that held it is still stored; the counter document holds the last value.
C23_KthAllocationIsK ==
    \A e \in Entities :
        /\ Len(id_log[e]) = counters[e]
        /\ \A k \in DOMAIN id_log[e] : id_log[e][k] = k
        /\ \A j, k \in DOMAIN id_log[e] : j < k => id_log[e][j] < id_log[e][k]

\* Three requests have been answered: task 1 was created and deleted, and the
\* creation answered last was given the id 2.
C23_Witness ==
    /\ nreq = 3 /\ \A p \in Procs : req[p] = Idle
    /\ id_log["tasks"] = <<1, 2>>
    /\ \E r \in resp : r.op = "create_task" /\ r.status = 200 /\ r.id = 2
    /\ \A t \in tasks : t.id = 2

\* C24 (as claimed): a create request of a user who presents a token that the
\* service issued and that has not expired is answered 201 and stores exactly
\* one new task and changes no other; the new task has the id allocated to
\* the request (which no stored task had), the requester as user_id whatever
\* the body names, the status pending, the fields of the body, and created_at
\* equal to updated_at; it is the task returned.
C24_CreateStoresOne ==
    [][\A r \in resp' :
        (r.op = "create" /\ Acceptable(r.token, now))
            => \E new \in tasks' :
                /\ r.status = 201
                /\ new \notin tasks /\ tasks' = tasks \cup {new}
                /\ new.id = r.id /\ r.id \in Range(id_log["tasks"])
                /\ \A t \in tasks : t.id # new.id
                /\ r.token.sub = IntClaim(new.user_id)
                /\ new.status = "pending"
                /\ new.created_at = new.updated_at /\ new.created_at = r.t
                /\ \A f \in DOMAIN r.data : new[f] = r.data[f]
                /\ r.body = {new}
      ]_vars

\* C25 (as claimed): the step that answers a login or token request with 401
\* or 403 leaves every stored user record, last_login included, as it was.
C25_RefusedLoginFrame ==
    [][(\E r \in resp' : r.op \in {"login", "token"} /\ r.status \in {401, 403})
          => users' = users]_vars

\* C26 (as claimed): an update, complete or assign request (of a user who
\* presents a token that the service issued and that has not expired) for an
\* id that no stored task has is answered 404, and the step that answers it
\* creates no task.
C26_WriteOnDeleted ==
    [][\A r \in resp' :
        (r.op \in {"update", "complete", "assign"} /\ Acceptable(r.token, now)
             /\ get_task(r.task_id) = {})
            => r.status = 404 /\ tasks' = tasks
      ]_vars

\* C27 (as claimed): every stored task has a status and a priority of its
\* enum and a title (not null) of 1 to 200 characters.
C27_StoredTasksValid ==
    \A t \in tasks :
        /\ t.status \in Statuses
        /\ t.priority \in Priorities
        /\ t.title # NoText /\ TitleInRange(t.title)

\* C28: in every step of creations and of updates (with the patches that PUT,
\* complete and assign requests make, whatever id, owner or creation time a
\* body names) each stored task stays stored with its id, its user_id and its
\* created_at, and the task that an update finds when its write is applied
\* has the owner and the creation time it had when the update was called.
C28_IdentityKept ==
    /\ [][\A t \in tasks :
            \E n \in tasks' :
                n.id = t.id /\ n.user_id = t.user_id /\ n.created_at = t.created_at
        ]_vars
    /\ [](\A r \in InFlight :
            r.pc = "write"
                => \A t \in tasks, old \in r.task :
                      t.id = r.task_id
                          => t.user_id = old.user_id /\ t.created_at = old.created_at)

\* An update whose body names the admin as owner has been applied to the
\* owner's task: the task is still the owner's.
C28_Witness ==
    \E r \in resp, t \in tasks :
        /\ r.op = "update_task" /\ r.status = 200 /\ r.target = 3
        /\ t.id = r.task_id /\ t.status = "in_progress" /\ t.user_id = 1

\* C29 (as claimed): a stored task's updated_at is never earlier than its
\* created_at, and from one state to the next it never decreases.
C29_UpdatedAtMonotone ==
    /\ [](\A t \in tasks : t.updated_at >= t.created_at)
    /\ [][\A t \in tasks, n \in tasks' : n.id = t.id => n.updated_at >= t.updated_at]_vars

\* C30: every user that a step stores is active and no admin, whatever flags
\* the registration body names, and every step of every route keeps each
\* stored user stored with its is_active and is_admin flags.
C30_FlagsKept ==
    [][/\ \A u \in users :
            \E v \in users' :
                v.id = u.id /\ v.is_active = u.is_active /\ v.is_admin = u.is_admin
       /\ \A v \in users' :
            (\A u \in users : u.id # v.id) => v.is_active /\ ~v.is_admin
      ]_vars

\* A registration whose body names is_admin = true and is_active = false has
\* been answered 201: the stored user is active and no admin.
C30_Witness ==
    \E r \in resp, u \in users :
        /\ r.op = "register" /\ r.status = 201
        /\ r.data.is_admin /\ ~r.data.is_active
        /\ u.id = r.id /\ u.is_active /\ ~u.is_admin

=============================================================================
